---------------------------- MODULE Spec2Model ----------------------------
(***************************************************************************)
(* A model of generate_app_icon.py: the vertical gradient, the flame and   *)
(* anchor glyphs, the rounded-corner mask, the flattening onto white, the  *)
(* PNG write and the program entry point.                                  *)
(*                                                                         *)
(* Images are observed at a fixed set of probe pixels (Probes); the        *)
(* gradient routine is also modelled on whole width x height rasters.      *)
(* The geometry is computed in the program's own float arithmetic, IEEE    *)
(* double precision, represented exactly; the drawing library rasterises   *)
(* on a grid of hundredths of a pixel.                                     *)
(***************************************************************************)
EXTENDS Integers, Sequences, FiniteSets, TLC

(***************************************************************************)
(* Bounds of the model.                                                    *)
(***************************************************************************)
MaxCalls == 3
MaxWidth == 2
MaxHeight == 4

(***************************************************************************)
(* Constants of the program.                                               *)
(***************************************************************************)
SIZE == 1024

Px(n) == 100 * n

Abs(n) == IF n < 0 THEN -n ELSE n

Min(a, b) == IF a < b THEN a ELSE b

Max(a, b) == IF a < b THEN b ELSE a

RECURSIVE IsqrtIter(_, _, _)
IsqrtIter(n, lo, hi) ==
    IF hi - lo <= 1 THEN lo
    ELSE LET mid == (lo + hi) \div 2
         IN  IF mid * mid <= n THEN IsqrtIter(n, mid, hi)
             ELSE IsqrtIter(n, lo, mid)

Isqrt(n) == IsqrtIter(n, 0, 46341)

(***************************************************************************)
(* Natural numbers of any size, as little-endian sequences of 15-bit       *)
(* limbs without leading zeros: <<>> is 0.  They carry the 53-bit          *)
(* significands of the floats and the exact results before rounding.       *)
(* The arithmetic is written as functions, whose arguments are values.     *)
(***************************************************************************)
LimbBase == 2 ^ 15

Limbs == Seq(Nat)

Limb(s, k) == IF k <= Len(s) THEN s[k] ELSE 0

Trim[s \in Limbs] ==
    IF s = <<>> THEN s
    ELSE IF s[Len(s)] = 0 THEN Trim[SubSeq(s, 1, Len(s) - 1)] ELSE s

AddFrom[a \in Limbs, b \in Limbs, k \in Nat, carry \in Nat] ==
    IF k > Len(a) /\ k > Len(b)
    THEN IF carry = 0 THEN <<>> ELSE <<carry>>
    ELSE <<(Limb(a, k) + Limb(b, k) + carry) % LimbBase>>
         \o AddFrom[a, b, k + 1, (Limb(a, k) + Limb(b, k) + carry) \div LimbBase]

AddN(a, b) == Trim[AddFrom[a, b, 1, 0]]

SubFrom[a \in Limbs, b \in Limbs, k \in Nat, borrow \in Nat] ==
    IF k > Len(a) THEN <<>>
    ELSE <<(LimbBase + Limb(a, k) - Limb(b, k) - borrow) % LimbBase>>
         \o SubFrom[a, b, k + 1,
                    IF Limb(a, k) - Limb(b, k) - borrow < 0 THEN 1 ELSE 0]

\* a - b for a >= b
SubN(a, b) == Trim[SubFrom[a, b, 1, 0]]

CmpFrom[a \in Limbs, b \in Limbs, k \in Nat] ==
    IF k = 0 THEN 0
    ELSE IF a[k] > b[k] THEN 1
    ELSE IF a[k] < b[k] THEN -1
    ELSE CmpFrom[a, b, k - 1]

CmpN[a \in Limbs, b \in Limbs] ==
    IF Len(a) > Len(b) THEN 1
    ELSE IF Len(a) < Len(b) THEN -1
    ELSE CmpFrom[a, b, Len(a)]

MulSmallFrom[a \in Limbs, d \in Nat, k \in Nat, carry \in Nat] ==
    IF k > Len(a)
    THEN IF carry = 0 THEN <<>> ELSE <<carry>>
    ELSE <<(a[k] * d + carry) % LimbBase>>
         \o MulSmallFrom[a, d, k + 1, (a[k] * d + carry) \div LimbBase]

\* a * d for 0 <= d < LimbBase
MulSmall(a, d) == Trim[MulSmallFrom[a, d, 1, 0]]

MulN[a \in Limbs, b \in Limbs] ==
    IF b = <<>> \/ a = <<>> THEN <<>>
    ELSE AddN(MulSmall(a, b[1]), Trim[<<0>> \o MulN[a, Tail(b)]])

\* Long division by d from the top limb k down: quotient limbs q so far,
\* remainder r so far.
DivFrom[a \in Limbs, d \in Nat, k \in Nat, r \in Nat, q \in Limbs] ==
    IF k = 0 THEN [q |-> Trim[q], r |-> r]
    ELSE DivFrom[a, d, k - 1, (r * LimbBase + a[k]) % d,
                 <<(r * LimbBase + a[k]) \div d>> \o q]

\* quotient and remainder of a by d, 0 < d < LimbBase
DivSmall[a \in Limbs, d \in Nat] == DivFrom[a, d, Len(a), 0, <<>>]

\* a * 2^k and a \div 2^k
Shl[a \in Limbs, k \in Nat] ==
    IF a = <<>> THEN <<>>
    ELSE [j \in 1..(k \div 15) |-> 0] \o MulSmall(a, 2 ^ (k % 15))

Shr[a \in Limbs, k \in Nat] ==
    IF k \div 15 >= Len(a) THEN <<>>
    ELSE DivSmall[SubSeq(a, (k \div 15) + 1, Len(a)), 2 ^ (k % 15)].q

BitLenSmall[n \in Nat] == IF n = 0 THEN 0 ELSE 1 + BitLenSmall[n \div 2]

BitLen[a \in Limbs] ==
    IF a = <<>> THEN 0 ELSE 15 * (Len(a) - 1) + BitLenSmall[a[Len(a)]]

IsOdd(a) == a # <<>> /\ a[1] % 2 = 1

FromInt[n \in Nat] == IF n = 0 THEN <<>> ELSE <<n % LimbBase>> \o FromInt[n \div LimbBase]

ToInt[a \in Limbs] == IF a = <<>> THEN 0 ELSE a[1] + LimbBase * ToInt[Tail(a)]

(***************************************************************************)
(* Python floats: IEEE 754 double precision.  A float is sign, significand *)
(* m and exponent e, of value m * 2^e, with m of exactly 53 bits (or 0);   *)
(* every operation rounds its exact result to the nearest float, ties to   *)
(* the even significand.  The magnitudes the program computes are far from *)
(* the subnormal and overflow ranges, which are left out.                  *)
(***************************************************************************)
Dbl(neg, m, e) == [neg |-> neg, m |-> m, e |-> e]

\* Floats, and exact values before rounding (a significand of any size).
Dbls == [neg : BOOLEAN, m : Limbs, e : Int]

Zero == Dbl(FALSE, <<>>, 0)

\* A significand that grew to 54 bits by rounding up loses its last bit, a 0.
Renorm[neg \in BOOLEAN, q \in Limbs, e \in Int] ==
    IF BitLen[q] = 54 THEN Dbl(neg, Shr[q, 1], e + 1) ELSE Dbl(neg, q, e)

\* q is the significand cut to 53 bits; c compares what was cut off with half
\* a unit of q: up when more, to the even significand when equal.
RoundPick[neg \in BOOLEAN, q \in Limbs, c \in Int, e \in Int] ==
    IF c = 1 \/ (c = 0 /\ IsOdd(q)) THEN Renorm[neg, AddN(q, <<1>>), e]
    ELSE Dbl(neg, q, e)

RoundRem[neg \in BOOLEAN, n \in Limbs, e \in Int, k \in Nat, q \in Limbs] ==
    RoundPick[neg, q, CmpN[SubN(n, Shl[q, k]), Shl[<<1>>, k - 1]], e + k]

RoundLen[neg \in BOOLEAN, n \in Limbs, e \in Int, len \in Nat] ==
    IF len = 0 THEN Zero
    ELSE IF len <= 53 THEN Dbl(neg, Shl[n, 53 - len], e - (53 - len))
    ELSE RoundRem[neg, n, e, len - 53, Shr[n, len - 53]]

\* The float nearest to n * 2^e, for a natural n of any size.
RoundD[neg \in BOOLEAN, n \in Limbs, e \in Int] == RoundLen[neg, n, e, BitLen[n]]

Rounded[s \in Dbls] == RoundD[s.neg, s.m, s.e]

AddAligned[an \in BOOLEAN, am \in Limbs, bn \in BOOLEAN, bm \in Limbs, e \in Int] ==
    IF an = bn THEN Dbl(an, AddN(am, bm), e)
    ELSE IF CmpN[am, bm] >= 0 THEN Dbl(an, SubN(am, bm), e)
    ELSE Dbl(bn, SubN(bm, am), e)

\* a + b without rounding: a sign, a natural of any size and an exponent.
ExactAdd[a \in Dbls, b \in Dbls] ==
    AddAligned[a.neg, Shl[a.m, a.e - Min(a.e, b.e)],
               b.neg, Shl[b.m, b.e - Min(a.e, b.e)], Min(a.e, b.e)]

Neg[a \in Dbls] == [a EXCEPT !.neg = ~a.neg]

\* The float operators a + b, a - b, a * b, and a / d for a whole d.
FAdd(a, b) == Rounded[ExactAdd[a, b]]

FSub(a, b) == Rounded[ExactAdd[a, Neg[b]]]

FMul[a \in Dbls, b \in Dbls] == RoundD[a.neg # b.neg, MulN[a.m, b.m], a.e + b.e]

\* The quotient is taken to 60 more bits and a sticky bit records a remainder.
Quotients == [q : Limbs, r : Nat]

Sticky[x \in Quotients] ==
    IF x.r = 0 THEN Shl[x.q, 1] ELSE AddN(Shl[x.q, 1], <<1>>)

FDivInt[a \in Dbls, d \in Nat] == RoundD[a.neg, Sticky[DivSmall[Shl[a.m, 60], d]], a.e - 61]

\* float(n) of an int n
FromIntD[n \in Int] == RoundD[n < 0, FromInt[Abs(n)], 0]

\* The float a decimal literal denotes: Dec[12] is 0.12, Dec[51237] is 512.37.
Dec[n \in Nat] == FDivInt[FromIntD[n], 100]

\* size * 0.xx
Frac(v, pct) == FMul[v, Dec[pct]]

\* floor(|d| * k) for a whole k < LimbBase, and whether d * k is whole
Whole[n \in Limbs, e \in Int] ==
    IF e >= 0 THEN [q |-> ToInt[Shl[n, e]], exact |-> TRUE]
    ELSE [q |-> ToInt[Shr[n, -e]], exact |-> Shl[Shr[n, -e], -e] = n]

Wholes == [q : Nat, exact : BOOLEAN]

FloorOf[neg \in BOOLEAN, w \in Wholes] ==
    IF neg THEN -(w.q + (IF w.exact THEN 0 ELSE 1)) ELSE w.q

\* floor(d * k)
FloorTimes[d \in Dbls, k \in Nat] == FloorOf[d.neg, Whole[MulSmall(d.m, k), d.e]]

\* int(d): truncation towards zero
IntOf[d \in Dbls] == IF d.neg THEN -FloorTimes[Neg[d], 1] ELSE FloorTimes[d, 1]

(***************************************************************************)
(* The drawing library rasterises on a grid of hundredths of a pixel: a    *)
(* float coordinate is taken down to that grid.                            *)
(***************************************************************************)
Cpx(d) == FloorTimes[d, 100]

CpxPoint(pt) == <<FloorTimes[pt[1], 100], FloorTimes[pt[2], 100]>>

CpxPoints[points \in Seq(Seq(Dbls))] ==
    IF points = <<>> THEN <<>>
    ELSE <<CpxPoint(points[1])>> \o CpxPoints[Tail(points)]

CpxBox(box) ==
    <<FloorTimes[box[1], 100], FloorTimes[box[2], 100],
      FloorTimes[box[3], 100], FloorTimes[box[4], 100]>>

(***************************************************************************)
(* Colours.                                                                *)
(***************************************************************************)
WHITE == <<255, 255, 255>>

BLACK == <<0, 0, 0>>

\* Variant of Blend8 with the mask's polarity exchanged.
Blend8_swapped(m, in1, in2) == (((in1 * m + in2 * (255 - m) + 128) \div 256)
                                + (in1 * m + in2 * (255 - m) + 128)) \div 256

(***************************************************************************)
(* The library's 8-bit blend: out = round((in1*(255-mask) + in2*mask)/255) *)
(* by shifts, as paste(im, box, mask) does per channel.                    *)
(***************************************************************************)
Div255(a) == LET tmp == a + 128 IN ((tmp \div 256) + tmp) \div 256

Blend8(m, in1, in2) == Div255(in1 * (255 - m) + in2 * m)

BlendRGB(m, c1, c2) ==
    <<Blend8(m, c1[1], c2[1]), Blend8(m, c1[2], c2[2]), Blend8(m, c1[3], c2[3])>>

(***************************************************************************)
(* create_gradient_background, line 16: the mask value of row yy,          *)
(* int(255 * (yy / height)), in float arithmetic.                          *)
(***************************************************************************)
\* Variant of RowMask that runs from 255 down, the gradient upside down.
RowMask_reversed(yy, height) ==
    255 - IntOf[FMul[FromIntD[255], FDivInt[FromIntD[yy], height]]]

RowMask(yy, height) == IntOf[FMul[FromIntD[255], FDivInt[FromIntD[yy], height]]]


(***************************************************************************)
(* The pixels at which images are observed: the four corners, the centre,  *)
(* edge midpoints, and pixels inside each glyph element of the 1024 icon.  *)
(***************************************************************************)
Corners == {<<0, 0>>, <<SIZE - 1, 0>>, <<0, SIZE - 1>>, <<SIZE - 1, SIZE - 1>>}

Centre == <<SIZE \div 2, SIZE \div 2>>

EdgeProbes == {<<512, 0>>, <<512, 1023>>, <<0, 512>>, <<100, 512>>}

FlameProbes == {<<512, 20>>, <<512, 80>>, <<512, 121>>}

AnchorProbes ==
    {<<512, 212>>, <<512, 250>>, <<512, 400>>, <<400, 512>>,
     <<293, 668>>, <<731, 668>>, <<330, 686>>, <<694, 686>>}

Probes == Corners \cup {Centre} \cup EdgeProbes \cup FlameProbes \cup AnchorProbes

Pt(p) == <<Px(p[1]), Px(p[2])>>

Dist2(a, b) == (a[1] - b[1]) * (a[1] - b[1]) + (a[2] - b[2]) * (a[2] - b[2])

Near(a, b, r) == Abs(a[1] - b[1]) <= r /\ Abs(a[2] - b[2]) <= r

(***************************************************************************)
(* Shapes of the drawing library, as the set of points they fill.          *)
(***************************************************************************)
\* draw.polygon(points, fill): even-odd ray casting over the edges.
EdgeCrosses(a, b, q) ==
    /\ (a[2] > q[2]) # (b[2] > q[2])
    /\ q[1] < a[1] + ((q[2] - a[2]) * (b[1] - a[1])) \div (b[2] - a[2])

InPolygon(poly, q) ==
    LET n == Len(poly)
        crossing == {k \in 1..n : EdgeCrosses(poly[k], poly[(k % n) + 1], q)}
    IN  Cardinality(crossing) % 2 = 1

\* draw.ellipse(bbox, outline, width): a ring of the given width inside bbox.
InRing(c, r, w, q) ==
    /\ Near(c, q, r)
    /\ Dist2(c, q) <= r * r
    /\ (w >= r \/ Dist2(c, q) >= (r - w) * (r - w))

\* The centre and the radius of the ellipse inscribed in a bounding box.
BoxCentre(box) == <<(box[1] + box[3]) \div 2, (box[2] + box[4]) \div 2>>

BoxRadius(box) == (box[3] - box[1]) \div 2

\* draw.rounded_rectangle(bbox, radius, fill): the radius is limited to half
\* of each side; inside a corner square the point must lie in the corner disc.
InRoundedRect(box, radius, q) ==
    LET x0 == box[1]
        y0 == box[2]
        x1 == box[3]
        y1 == box[4]
        r == Min(radius, Min((x1 - x0) \div 2, (y1 - y0) \div 2))
        ccx == IF q[1] < x0 + r THEN x0 + r ELSE IF q[1] > x1 - r THEN x1 - r ELSE q[1]
        ccy == IF q[2] < y0 + r THEN y0 + r ELSE IF q[2] > y1 - r THEN y1 - r ELSE q[2]
    IN  /\ x0 <= q[1] /\ q[1] <= x1
        /\ y0 <= q[2] /\ q[2] <= y1
        /\ ((ccx # q[1] /\ ccy # q[2]) => Dist2(<<ccx, ccy>>, q) <= r * r)

\* One segment of draw.line(points, fill, width): the rectangle of half-width
\* h about the segment a-b, with flat ends.
InSegment(a, b, h, q) ==
    LET ux == b[1] - a[1]
        uy == b[2] - a[2]
        vx == q[1] - a[1]
        vy == q[2] - a[2]
        len2 == ux * ux + uy * uy
        dot == vx * ux + vy * uy
        cross == vx * uy - vy * ux
    IN  /\ q[1] >= Min(a[1], b[1]) - h /\ q[1] <= Max(a[1], b[1]) + h
        /\ q[2] >= Min(a[2], b[2]) - h /\ q[2] <= Max(a[2], b[2]) + h
        /\ len2 > 0
        /\ 0 <= dot /\ dot <= len2
        /\ Abs(cross) <= h * Isqrt(len2)

\* draw.line(points, fill, width, joint='curve'): every segment, and a disc
\* of the line's width at every interior point.
InLine(points, h, q) ==
    \/ \E k \in 1..(Len(points) - 1) : InSegment(points[k], points[k + 1], h, q)
    \/ \E k \in 2..(Len(points) - 1) :
          Near(points[k], q, h) /\ Dist2(points[k], q) <= h * h

(***************************************************************************)
(* draw_anchor: the dimensions derived from size, and the shapes, in the   *)
(* float arithmetic of the source, operation by operation.                 *)
(***************************************************************************)
ring_radius(size) == Frac(size, 12)

crossbar_width(size) == Frac(size, 70)

crossbar_height(size) == Frac(size, 12)

stem_width(size) == Frac(size, 12)

stem_height(size) == Frac(size, 55)

hook_width(size) == Frac(size, 80)

hook_height(size) == Frac(size, 25)

\* int(size * 0.08) and int(size * 0.12): whole pixels, on the raster grid.
ring_stroke(size) == Px(IntOf[Frac(size, 8)])

hook_stroke(size) == Px(IntOf[Frac(size, 12)])

\* cy + stem_height - size * 0.45, the y of the stem's bottom.
StemBottom(cy, size) == FSub(FAdd(cy, stem_height(size)), Frac(size, 45))

ring_bbox(cx, cy, size) ==
    <<FSub(cx, ring_radius(size)), FSub(FSub(cy, Frac(size, 45)), ring_radius(size)),
      FAdd(cx, ring_radius(size)), FAdd(FSub(cy, Frac(size, 45)), ring_radius(size))>>

stem_bbox(cx, cy, size) ==
    <<FSub(cx, FDivInt[stem_width(size), 2]), FSub(cy, Frac(size, 45)),
      FAdd(cx, FDivInt[stem_width(size), 2]), StemBottom(cy, size)>>

crossbar_bbox(cx, cy, size) ==
    <<FSub(cx, FDivInt[crossbar_width(size), 2]), FSub(cy, FDivInt[crossbar_height(size), 2]),
      FAdd(cx, FDivInt[crossbar_width(size), 2]), FAdd(cy, FDivInt[crossbar_height(size), 2])>>

\* math.cos(angle) and math.sin(angle) for angle = math.pi * (0.5 + i / 40.0),
\* i = 0..19, as the C library returns them: cos(pi/2) is 6.1e-17, not 0.
cos_angle ==
    <<Dbl(FALSE, <<23559, 26152, 6296, 141>>, -106),
      Dbl(TRUE, <<3652, 25715, 22420, 160>>, -56),
      Dbl(TRUE, <<21371, 20304, 6189, 160>>, -55),
      Dbl(TRUE, <<31681, 19241, 1574, 239>>, -55),
      Dbl(TRUE, <<26958, 28255, 7100, 158>>, -54),
      Dbl(TRUE, <<10594, 19805, 30602, 195>>, -54),
      Dbl(TRUE, <<24063, 22153, 14520, 232>>, -54),
      Dbl(TRUE, <<11932, 20970, 24891, 133>>, -53),
      Dbl(TRUE, <<23133, 2282, 15500, 150>>, -53),
      Dbl(TRUE, <<28397, 3073, 8477, 166>>, -53),
      Dbl(TRUE, <<15308, 19710, 633, 181>>, -53),
      Dbl(TRUE, <<28435, 18555, 21755, 194>>, -53),
      Dbl(TRUE, <<29863, 14127, 3550, 207>>, -53),
      Dbl(TRUE, <<1344, 3402, 9040, 218>>, -53),
      Dbl(TRUE, <<11372, 14970, 3200, 228>>, -53),
      Dbl(TRUE, <<3398, 7781, 16815, 236>>, -53),
      Dbl(TRUE, <<21759, 9864, 15416, 243>>, -53),
      Dbl(TRUE, <<7118, 3054, 30366, 248>>, -53),
      Dbl(TRUE, <<25691, 10335, 27794, 252>>, -53),
      Dbl(TRUE, <<24751, 23628, 6908, 255>>, -53)>>

sin_angle ==
    <<Dbl(FALSE, <<0, 0, 0, 128>>, -52),
      Dbl(FALSE, <<24751, 23628, 6908, 255>>, -53),
      Dbl(FALSE, <<25691, 10335, 27794, 252>>, -53),
      Dbl(FALSE, <<7119, 3054, 30366, 248>>, -53),
      Dbl(FALSE, <<21760, 9864, 15416, 243>>, -53),
      Dbl(FALSE, <<3398, 7781, 16815, 236>>, -53),
      Dbl(FALSE, <<11373, 14970, 3200, 228>>, -53),
      Dbl(FALSE, <<1345, 3402, 9040, 218>>, -53),
      Dbl(FALSE, <<29864, 14127, 3550, 207>>, -53),
      Dbl(FALSE, <<28436, 18555, 21755, 194>>, -53),
      Dbl(FALSE, <<15309, 19710, 633, 181>>, -53),
      Dbl(FALSE, <<28399, 3073, 8477, 166>>, -53),
      Dbl(FALSE, <<23135, 2282, 15500, 150>>, -53),
      Dbl(FALSE, <<11933, 20970, 24891, 133>>, -53),
      Dbl(FALSE, <<24066, 22153, 14520, 232>>, -54),
      Dbl(FALSE, <<10597, 19805, 30602, 195>>, -54),
      Dbl(FALSE, <<26961, 28255, 7100, 158>>, -54),
      Dbl(FALSE, <<31696, 19241, 1574, 239>>, -55),
      Dbl(FALSE, <<21369, 20304, 6189, 160>>, -55),
      Dbl(FALSE, <<3666, 25715, 22420, 160>>, -56)>>

\* math.cos(angle) * hook_width / 3 and math.sin(angle) * hook_height
HookDx(k, size) == FDivInt[FMul[cos_angle[k + 1], hook_width(size)], 3]

HookDy(k, size) == FMul[sin_angle[k + 1], hook_height(size)]

LeftHookPoint(k, cx, cy, size) ==
    <<FAdd(FSub(cx, FDivInt[hook_width(size), 4]), HookDx(k, size)),
      FAdd(StemBottom(cy, size), HookDy(k, size))>>

\* Variant of RightHookPoint that keeps the left hook's sign of the cosine term.
RightHookPoint_sameSign(k, cx, cy, size) ==
    <<FAdd(FAdd(cx, FDivInt[hook_width(size), 4]), HookDx(k, size)),
      FAdd(StemBottom(cy, size), HookDy(k, size))>>

RightHookPoint(k, cx, cy, size) ==
    <<FSub(FAdd(cx, FDivInt[hook_width(size), 4]), HookDx(k, size)),
      FAdd(StemBottom(cy, size), HookDy(k, size))>>

LeftTriangle(cx, cy, size) ==
    <<<<FSub(cx, Frac(hook_width(size), 42)), FAdd(StemBottom(cy, size), Frac(hook_height(size), 70))>>,
      <<FSub(cx, Frac(hook_width(size), 47)), FAdd(StemBottom(cy, size), Frac(hook_height(size), 95))>>,
      <<FSub(cx, Frac(hook_width(size), 32)), FAdd(StemBottom(cy, size), Frac(hook_height(size), 85))>>>>

RightTriangle(cx, cy, size) ==
    <<<<FAdd(cx, Frac(hook_width(size), 42)), FAdd(StemBottom(cy, size), Frac(hook_height(size), 70))>>,
      <<FAdd(cx, Frac(hook_width(size), 47)), FAdd(StemBottom(cy, size), Frac(hook_height(size), 95))>>,
      <<FAdd(cx, Frac(hook_width(size), 32)), FAdd(StemBottom(cy, size), Frac(hook_height(size), 85))>>>>

(***************************************************************************)
(* draw_flame: the two six-point polygons.                                 *)
(***************************************************************************)
flame_height(size) == Frac(size, 35)

flame_width(size) == Frac(size, 25)

outer_points(cx, cy, size) ==
    LET fh == flame_height(size)
        fw == flame_width(size)
    IN  <<<<cx, FSub(cy, Frac(fh, 70))>>,
          <<FSub(cx, Frac(fw, 70)), FSub(cy, Frac(fh, 30))>>,
          <<FSub(cx, Frac(fw, 40)), cy>>,
          <<cx, FSub(cy, Frac(fh, 15))>>,
          <<FAdd(cx, Frac(fw, 40)), cy>>,
          <<FAdd(cx, Frac(fw, 70)), FSub(cy, Frac(fh, 30))>>>>

inner_points(cx, cy, size) ==
    LET fh == flame_height(size)
        fw == flame_width(size)
    IN  <<<<cx, FSub(cy, Frac(fh, 55))>>,
          <<FSub(cx, Frac(fw, 35)), FSub(cy, Frac(fh, 20))>>,
          <<FSub(cx, Frac(fw, 20)), FSub(cy, Frac(fh, 5))>>,
          <<cx, FSub(cy, Frac(fh, 10))>>,
          <<FAdd(cx, Frac(fw, 20)), FSub(cy, Frac(fh, 5))>>,
          <<FAdd(cx, Frac(fw, 35)), FSub(cy, Frac(fh, 20))>>>>

(***************************************************************************)
(* create_app_icon: the derived positions.                                 *)
(***************************************************************************)
center_x == FromIntD[SIZE \div 2]

center_y == FromIntD[SIZE \div 2]

symbol_size == Frac(FromIntD[SIZE], 55)

flame_y == FSub(center_y, Frac(symbol_size, 65))


\* int(size * 0.2237), in whole pixels
corner_radius == IntOf[FMul[FromIntD[SIZE], FDivInt[FromIntD[2237], 10000]]]

(***************************************************************************)
(* Images: a mode, a size in pixels, and the pixel values at the probes.   *)
(***************************************************************************)
NewImage(mode, w, h, colour) ==
    [mode |-> mode, size |-> <<w, h>>, px |-> [p \in Probes |-> colour]]

NoImage == NewImage("none", 0, 0, 0)

\* A drawing primitive on the canvas: the covered probes take the ink.  (The
\* set of covered probes is bound once, then used for every probe.)
Paint(im, covered, ink) ==
    [im EXCEPT !.px = CHOOSE f \in {[p \in Probes |-> IF p \in c THEN ink ELSE im.px[p]] :
                                       c \in {covered}} : TRUE]

\* The probes covered by the shapes of ImageDraw, given on the raster grid.
Polygon[points \in Seq(Seq(Int))] == {p \in Probes : InPolygon(points, Pt(p))}

Ellipse[bbox \in Seq(Int), w \in Nat] ==
    {p \in Probes : InRing(BoxCentre(bbox), BoxRadius(bbox), w, Pt(p))}

RoundedRectangle[bbox \in Seq(Int), radius \in Nat] ==
    {p \in Probes : InRoundedRect(bbox, radius, Pt(p))}

Line[points \in Seq(Seq(Int)), w \in Nat] ==
    {p \in Probes : InLine(points, w \div 2, Pt(p))}

(***************************************************************************)
(* The arguments of create_app_icon.  flame_colors is None (not given), or *)
(* a tuple of colours, possibly empty.                                     *)
(***************************************************************************)
None == [given |-> FALSE, items |-> <<>>]

Colors(items) == [given |-> TRUE, items |-> items]

\* Python's truth value of flame_colors: None and () are false.
Truthy(fc) == fc.given /\ Len(fc.items) > 0

IconArgs(filename, c1, c2, anchor, flame, fc) ==
    [filename |-> filename, bg_color1 |-> c1, bg_color2 |-> c2,
     anchor_color |-> anchor, include_flame |-> flame, flame_colors |-> fc]

DefaultArgs ==
    IconArgs("AppIcon-Default.png", <<255, 107, 107>>, <<255, 87, 87>>, WHITE, TRUE,
             Colors(<<<<255, 159, 67>>, <<255, 223, 117>>>>))

DarkArgs ==
    IconArgs("AppIcon-Dark.png", <<40, 44, 52>>, <<28, 31, 38>>, WHITE, TRUE,
             Colors(<<<<100, 181, 246>>, <<129, 212, 250>>>>))

TintedArgs ==
    IconArgs("AppIcon-Tinted.png", <<255, 138, 101>>, <<255, 112, 97>>, WHITE, TRUE,
             Colors(<<<<255, 193, 7>>, <<255, 235, 59>>>>))

\* The three calls of the entry point, in program order.
Variants == <<DefaultArgs, DarkArgs, TintedArgs>>

\* Other calls the signature allows: flame_colors left out (include_flame
\* keeps its default True), an empty pair, and include_flame=False.
OmittedFlameArgs ==
    IconArgs("NoFlame.png", <<255, 107, 107>>, <<255, 87, 87>>, WHITE, TRUE, None)

EmptyFlameArgs ==
    IconArgs("EmptyFlame.png", <<255, 107, 107>>, <<255, 87, 87>>, WHITE, TRUE, Colors(<<>>))

FlameOffArgs ==
    IconArgs("FlameOff.png", <<40, 44, 52>>, <<28, 31, 38>>, <<200, 200, 200>>, FALSE,
             Colors(<<<<100, 181, 246>>, <<129, 212, 250>>>>))

CallArgs == {DefaultArgs, OmittedFlameArgs, EmptyFlameArgs, FlameOffArgs}

FileNames == {Variants[k].filename : k \in 1..3} \cup {a.filename : a \in CallArgs}

CreatedLine(filename) == <<"Created: ", filename>>

SummaryLines ==
    <<<<"">>, <<"All app icons generated successfully!">>,
      <<"The icons now feature the streak flame theme while keeping the anchor symbol.">>>>

VARIABLES
    pc,                 \* the statement about to run
    driver,             \* who calls: "main", "calls", "anchor" or "gradient"
    idx,                \* calls of create_app_icon started so far
    args,               \* the arguments of the current create_app_icon call
    img, mask, output, final,   \* the images of create_app_icon
    ops,                \* the operations the current call has performed
    files,              \* the files on disk, by name
    stdout,             \* the lines printed
    exit_code,          \* the process's exit status, -1 while it runs
    rendered,           \* the finished calls: arguments and final image
    a_cx, a_cy, a_size, a_color,            \* draw_anchor's parameters
    left_hook_points, right_hook_points, i, \* draw_anchor's hook loops
    width, height, color1, color2,          \* create_gradient_background's
    base, top, gmask, mask_data, y          \* parameters and locals

icon_vars == <<args, img, mask, output, final, ops>>

io_vars == <<files, stdout, exit_code, rendered>>

anchor_vars == <<a_cx, a_cy, a_size, a_color, left_hook_points, right_hook_points, i>>

grad_vars == <<width, height, color1, color2, base, top, gmask, mask_data, y>>

vars == <<pc, driver, idx, icon_vars, io_vars, anchor_vars, grad_vars>>

IdleIcon ==
    /\ args = DefaultArgs
    /\ img = NoImage /\ mask = NoImage /\ output = NoImage /\ final = NoImage
    /\ ops = <<>>

IdleIO ==
    /\ files = [f \in FileNames |-> NoImage]
    /\ stdout = <<>>
    /\ exit_code = -1
    /\ rendered = <<>>

IdleAnchor ==
    /\ a_cx = Zero /\ a_cy = Zero /\ a_size = Zero /\ a_color = BLACK
    /\ left_hook_points = <<>> /\ right_hook_points = <<>> /\ i = 0

IdleGrad ==
    /\ width = 1 /\ height = 1 /\ color1 = BLACK /\ color2 = BLACK
    /\ base = <<>> /\ top = <<>> /\ gmask = <<>> /\ mask_data = <<>> /\ y = 0

\* The program entry point, before its first statement.
Init ==
    /\ pc = "caller" /\ driver = "main" /\ idx = 0
    /\ IdleIcon /\ IdleIO /\ IdleAnchor /\ IdleGrad

\* Variant of FlameRequested that tests include_flame alone.
FlameRequested_flagOnly(a) == a.include_flame

\* Variant of CreateGradient that pastes the gradient onto the canvas left by
\* the previous call instead of onto a new image.
CreateGradient_reuse ==
    /\ pc = "gradient"
    /\ img' = [mode |-> "RGB", size |-> <<SIZE, SIZE>>,
               px |-> [p \in Probes |->
                          BlendRGB(RowMask(p[2], SIZE),
                                   IF img.mode = "RGB" THEN img.px[p] ELSE args.bg_color1,
                                   args.bg_color2)]]
    /\ ops' = Append(ops, "gradient")
    /\ pc' = IF args.include_flame /\ Truthy(args.flame_colors) THEN "flame_outer" ELSE "anchor"
    /\ UNCHANGED <<driver, idx, args, mask, output, final, io_vars, anchor_vars, grad_vars>>

(***************************************************************************)
(* create_app_icon, lines 118-152.                                         *)
(***************************************************************************)
\* Line 129: if include_flame and flame_colors
FlameRequested(a) == a.include_flame /\ Truthy(a.flame_colors)

\* create_gradient_background(size, size, c1, c2) seen at one pixel: row p[2]
\* of base blended with top through the row's mask value.
GradientAt(p, w, h, c1, c2) == BlendRGB(RowMask(p[2], h), c1, c2)

\* Lines 120-129: the canvas is a fresh gradient background.
CreateGradient ==
    /\ pc = "gradient"
    /\ img' = [mode |-> "RGB", size |-> <<SIZE, SIZE>>,
               px |-> [p \in Probes |->
                          GradientAt(p, SIZE, SIZE, args.bg_color1, args.bg_color2)]]
    /\ ops' = Append(ops, "gradient")
    /\ pc' = IF FlameRequested(args) THEN "flame_outer" ELSE "anchor"
    /\ UNCHANGED <<driver, idx, args, mask, output, final, io_vars, anchor_vars, grad_vars>>

\* Lines 130-131 and 93-105: draw_flame's outer polygon, in colors[0].
DrawFlameOuter ==
    /\ pc = "flame_outer"
    /\ IF Len(args.flame_colors.items) >= 1
       THEN /\ img' = Paint(img,
                            Polygon[CpxPoints[outer_points(center_x, flame_y, symbol_size)]],
                            args.flame_colors.items[1])
            /\ ops' = Append(ops, "flame_outer")
            /\ pc' = "flame_inner"
       ELSE /\ pc' = "raised"
            /\ UNCHANGED <<img, ops>>
    /\ UNCHANGED <<driver, idx, args, mask, output, final, io_vars, anchor_vars, grad_vars>>

\* Lines 107-116: draw_flame's inner polygon, in colors[1], on top.
DrawFlameInner ==
    /\ pc = "flame_inner"
    /\ IF Len(args.flame_colors.items) >= 2
       THEN /\ img' = Paint(img,
                            Polygon[CpxPoints[inner_points(center_x, flame_y, symbol_size)]],
                            args.flame_colors.items[2])
            /\ ops' = Append(ops, "flame_inner")
            /\ pc' = "anchor"
       ELSE /\ pc' = "raised"
            /\ UNCHANGED <<img, ops>>
    /\ UNCHANGED <<driver, idx, args, mask, output, final, io_vars, anchor_vars, grad_vars>>

\* Line 134: draw_anchor(draw, center_x, center_y, symbol_size, anchor_color)
CallDrawAnchor ==
    /\ pc = "anchor"
    /\ a_cx' = center_x /\ a_cy' = center_y
    /\ a_size' = symbol_size /\ a_color' = args.anchor_color
    /\ pc' = "ring"
    /\ UNCHANGED <<driver, idx, icon_vars, io_vars, left_hook_points, right_hook_points, i,
                   grad_vars>>

\* Variant of DrawRing that draws the stem first and the ring over it.
DrawRing_afterStem ==
    /\ pc = "ring"
    /\ img' = Paint(Paint(img,
                          RoundedRectangle[CpxBox(stem_bbox(a_cx, a_cy, a_size)),
                                            Cpx(FDivInt[stem_width(a_size), 2])],
                          a_color),
                    Ellipse[CpxBox(ring_bbox(a_cx, a_cy, a_size)), ring_stroke(a_size)],
                    a_color)
    /\ ops' = ops \o <<"stem", "ring">>
    /\ pc' = "crossbar"
    /\ UNCHANGED <<driver, idx, args, mask, output, final, io_vars, anchor_vars, grad_vars>>

(***************************************************************************)
(* draw_anchor, lines 21-89.                                               *)
(***************************************************************************)
\* Lines 32-37
DrawRing ==
    /\ pc = "ring"
    /\ img' = Paint(img,
                    Ellipse[CpxBox(ring_bbox(a_cx, a_cy, a_size)), ring_stroke(a_size)],
                    a_color)
    /\ ops' = Append(ops, "ring")
    /\ pc' = "stem"
    /\ UNCHANGED <<driver, idx, args, mask, output, final, io_vars, anchor_vars, grad_vars>>

\* Lines 39-44
DrawStem ==
    /\ pc = "stem"
    /\ img' = Paint(img,
                    RoundedRectangle[CpxBox(stem_bbox(a_cx, a_cy, a_size)),
                                      Cpx(FDivInt[stem_width(a_size), 2])],
                    a_color)
    /\ ops' = Append(ops, "stem")
    /\ pc' = "crossbar"
    /\ UNCHANGED <<driver, idx, args, mask, output, final, io_vars, anchor_vars, grad_vars>>

\* Lines 46-55: the crossbar, then left_hook_points = []
DrawCrossbar ==
    /\ pc = "crossbar"
    /\ img' = Paint(img,
                    RoundedRectangle[CpxBox(crossbar_bbox(a_cx, a_cy, a_size)),
                                      Cpx(FDivInt[crossbar_height(a_size), 2])],
                    a_color)
    /\ ops' = Append(ops, "crossbar")
    /\ left_hook_points' = <<>>
    /\ i' = 0
    /\ pc' = "left_hook"
    /\ UNCHANGED <<driver, idx, args, mask, output, final, io_vars,
                   a_cx, a_cy, a_size, a_color, right_hook_points, grad_vars>>

\* Lines 56-60: one turn of the loop for i in range(20)
LeftHookStep ==
    /\ pc = "left_hook"
    /\ i < 20
    /\ left_hook_points' = Append(left_hook_points, LeftHookPoint(i, a_cx, a_cy, a_size))
    /\ i' = i + 1
    /\ UNCHANGED <<pc, driver, idx, icon_vars, io_vars,
                   a_cx, a_cy, a_size, a_color, right_hook_points, grad_vars>>

\* Lines 62-66: the left hook's line, then right_hook_points = []
DrawLeftHook ==
    /\ pc = "left_hook"
    /\ i = 20
    /\ IF Len(left_hook_points) >= 2
       THEN /\ img' = Paint(img,
                            Line[CpxPoints[left_hook_points], hook_stroke(a_size)],
                            a_color)
            /\ ops' = Append(ops, "left_hook")
       ELSE UNCHANGED <<img, ops>>
    /\ right_hook_points' = <<>>
    /\ i' = 0
    /\ pc' = "right_hook"
    /\ UNCHANGED <<driver, idx, args, mask, output, final, io_vars,
                   a_cx, a_cy, a_size, a_color, left_hook_points, grad_vars>>

\* Lines 67-71
RightHookStep ==
    /\ pc = "right_hook"
    /\ i < 20
    /\ right_hook_points' = Append(right_hook_points, RightHookPoint(i, a_cx, a_cy, a_size))
    /\ i' = i + 1
    /\ UNCHANGED <<pc, driver, idx, icon_vars, io_vars,
                   a_cx, a_cy, a_size, a_color, left_hook_points, grad_vars>>

\* Lines 73-74
DrawRightHook ==
    /\ pc = "right_hook"
    /\ i = 20
    /\ IF Len(right_hook_points) >= 2
       THEN /\ img' = Paint(img,
                            Line[CpxPoints[right_hook_points], hook_stroke(a_size)],
                            a_color)
            /\ ops' = Append(ops, "right_hook")
       ELSE UNCHANGED <<img, ops>>
    /\ pc' = "left_triangle"
    /\ UNCHANGED <<driver, idx, args, mask, output, final, io_vars, anchor_vars, grad_vars>>

\* Lines 76-82
DrawLeftTriangle ==
    /\ pc = "left_triangle"
    /\ img' = Paint(img, Polygon[CpxPoints[LeftTriangle(a_cx, a_cy, a_size)]], a_color)
    /\ ops' = Append(ops, "left_triangle")
    /\ pc' = "right_triangle"
    /\ UNCHANGED <<driver, idx, args, mask, output, final, io_vars, anchor_vars, grad_vars>>

\* Lines 84-89, and the return to the caller
DrawRightTriangle ==
    /\ pc = "right_triangle"
    /\ img' = Paint(img, Polygon[CpxPoints[RightTriangle(a_cx, a_cy, a_size)]], a_color)
    /\ ops' = Append(ops, "right_triangle")
    /\ pc' = IF driver = "anchor" THEN "anchor_done" ELSE "mask"
    /\ UNCHANGED <<driver, idx, args, mask, output, final, io_vars, anchor_vars, grad_vars>>

\* Variant of BuildMask with a plain rectangle: no corner is cut.
BuildMask_square ==
    /\ pc = "mask"
    /\ mask' = Paint(NewImage("L", SIZE, SIZE, 0),
                     RoundedRectangle[<<0, 0, Px(SIZE), Px(SIZE)>>, 0],
                     255)
    /\ ops' = Append(ops, "mask")
    /\ pc' = "apply_mask"
    /\ UNCHANGED <<driver, idx, args, img, output, final, io_vars, anchor_vars, grad_vars>>

\* Variant of SaveRaises that swallows the exception and carries on.
SaveRaises_swallowed ==
    /\ pc = "save"
    /\ pc' = "print"
    /\ UNCHANGED <<driver, idx, icon_vars, io_vars, anchor_vars, grad_vars>>

(***************************************************************************)
(* create_app_icon, lines 136-152: mask, flatten, save, print.             *)
(***************************************************************************)
\* Lines 137-140: a new 'L' image of zeros with a filled rounded rectangle
\* of radius corner_radius over the whole canvas.
BuildMask ==
    /\ pc = "mask"
    /\ mask' = Paint(NewImage("L", SIZE, SIZE, 0),
                     RoundedRectangle[<<0, 0, Px(SIZE), Px(SIZE)>>, Px(corner_radius)],
                     255)
    /\ ops' = Append(ops, "mask")
    /\ pc' = "apply_mask"
    /\ UNCHANGED <<driver, idx, args, img, output, final, io_vars, anchor_vars, grad_vars>>

\* Lines 143-145: a new transparent 'RGBA' image, the canvas pasted into it
\* (opaque), then the mask as its alpha band.
ApplyMask ==
    /\ pc = "apply_mask"
    /\ output' = [mode |-> "RGBA", size |-> <<SIZE, SIZE>>,
                  px |-> [p \in Probes |->
                             <<img.px[p][1], img.px[p][2], img.px[p][3], mask.px[p]>>]]
    /\ ops' = Append(ops, "apply_mask")
    /\ pc' = "flatten"
    /\ UNCHANGED <<driver, idx, args, img, mask, final, io_vars, anchor_vars, grad_vars>>

\* Lines 148-149: a new white 'RGB' image, output pasted through its own alpha.
Flatten ==
    /\ pc = "flatten"
    /\ final' = [mode |-> "RGB", size |-> <<SIZE, SIZE>>,
                 px |-> [p \in Probes |->
                            BlendRGB(output.px[p][4], NewImage("RGB", SIZE, SIZE, WHITE).px[p],
                                     output.px[p])]]
    /\ ops' = Append(ops, "flatten")
    /\ pc' = "save"
    /\ UNCHANGED <<driver, idx, args, img, mask, output, io_vars, anchor_vars, grad_vars>>

\* Line 151: final.save(filename, 'PNG', quality=100) writes the file.
SaveOk ==
    /\ pc = "save"
    /\ files' = [files EXCEPT ![args.filename] = final]
    /\ ops' = Append(ops, "save")
    /\ pc' = "print"
    /\ UNCHANGED <<driver, idx, args, img, mask, output, final, stdout, exit_code, rendered,
                   anchor_vars, grad_vars>>

\* Line 151: final.save raises (no such directory, permission denied); the
\* exception leaves create_app_icon.
SaveRaises ==
    /\ pc = "save"
    /\ pc' = "raised"
    /\ UNCHANGED <<driver, idx, icon_vars, io_vars, anchor_vars, grad_vars>>

\* Line 152: print(f"Created: {filename}"), and the return to the caller.
PrintCreated ==
    /\ pc = "print"
    /\ stdout' = Append(stdout, CreatedLine(args.filename))
    /\ rendered' = Append(rendered, [args |-> args, final |-> final])
    /\ pc' = "caller"
    /\ UNCHANGED <<driver, idx, icon_vars, files, exit_code, anchor_vars, grad_vars>>

\* Variant of MainCall that takes the variants last to first.
MainCall_reversed ==
    /\ pc = "caller" /\ driver = "main"
    /\ idx < Len(Variants)
    /\ idx' = idx + 1
    /\ args' = Variants[Len(Variants) - idx]
    /\ ops' = <<>>
    /\ pc' = "gradient"
    /\ UNCHANGED <<driver, img, mask, output, final, io_vars, anchor_vars, grad_vars>>

(***************************************************************************)
(* The entry point, lines 155-196.                                         *)
(***************************************************************************)
\* Lines 157, 170, 183: the next of the three calls.
MainCall ==
    /\ pc = "caller" /\ driver = "main"
    /\ idx < Len(Variants)
    /\ idx' = idx + 1
    /\ args' = Variants[idx + 1]
    /\ ops' = <<>>
    /\ pc' = "gradient"
    /\ UNCHANGED <<driver, img, mask, output, final, io_vars, anchor_vars, grad_vars>>

\* Lines 195-196: print("\n... All app icons generated successfully!") and
\* print("The icons now feature ..."), then the end of the script.
MainSummary ==
    /\ pc = "caller" /\ driver = "main"
    /\ idx = Len(Variants)
    /\ stdout' = stdout \o SummaryLines
    /\ exit_code' = 0
    /\ pc' = "exited"
    /\ UNCHANGED <<driver, idx, icon_vars, files, rendered, anchor_vars, grad_vars>>

\* An exception no one catches: the interpreter prints the traceback and
\* exits with status 1.
Uncaught ==
    /\ pc = "raised"
    /\ exit_code' = 1
    /\ pc' = "exited"
    /\ UNCHANGED <<driver, idx, icon_vars, files, stdout, rendered, anchor_vars, grad_vars>>

Next ==
    \/ MainCall \/ MainSummary \/ Uncaught
    \/ CreateGradient \/ DrawFlameOuter \/ DrawFlameInner \/ CallDrawAnchor
    \/ DrawRing \/ DrawStem \/ DrawCrossbar
    \/ LeftHookStep \/ DrawLeftHook \/ RightHookStep \/ DrawRightHook
    \/ DrawLeftTriangle \/ DrawRightTriangle
    \/ BuildMask \/ ApplyMask \/ Flatten \/ SaveOk \/ SaveRaises \/ PrintCreated

Spec == Init /\ [][Next]_vars

(***************************************************************************)
(* create_app_icon called with any of CallArgs, up to MaxCalls times, by a *)
(* script that may end after any call.                                     *)
(***************************************************************************)
InitCalls ==
    /\ pc = "caller" /\ driver = "calls" /\ idx = 0
    /\ IdleIcon /\ IdleIO /\ IdleAnchor /\ IdleGrad

AnyCall ==
    /\ pc = "caller" /\ driver = "calls"
    /\ idx < MaxCalls
    /\ \E a \in CallArgs : args' = a
    /\ idx' = idx + 1
    /\ ops' = <<>>
    /\ pc' = "gradient"
    /\ UNCHANGED <<driver, img, mask, output, final, io_vars, anchor_vars, grad_vars>>

ScriptEnd ==
    /\ pc = "caller" /\ driver = "calls"
    /\ exit_code' = 0
    /\ pc' = "exited"
    /\ UNCHANGED <<driver, idx, icon_vars, files, stdout, rendered, anchor_vars, grad_vars>>

NextCalls ==
    \/ AnyCall \/ ScriptEnd \/ Uncaught
    \/ CreateGradient \/ DrawFlameOuter \/ DrawFlameInner \/ CallDrawAnchor
    \/ DrawRing \/ DrawStem \/ DrawCrossbar
    \/ LeftHookStep \/ DrawLeftHook \/ RightHookStep \/ DrawRightHook
    \/ DrawLeftTriangle \/ DrawRightTriangle
    \/ BuildMask \/ ApplyMask \/ Flatten \/ SaveOk \/ SaveRaises \/ PrintCreated

SpecCalls == InitCalls /\ [][NextCalls]_vars

(***************************************************************************)
(* draw_anchor alone, on a black canvas, for several centres and sizes.    *)
(***************************************************************************)
AnchorCentresX == {FromIntD[300], center_x, Dec[51237]}

AnchorCentresY == {center_y, Dec[40050]}

AnchorSizes == {symbol_size, FromIntD[200], Dec[33333]}

InitAnchor ==
    /\ pc = "ring" /\ driver = "anchor" /\ idx = 0
    /\ args = DefaultArgs
    /\ img = NewImage("RGB", SIZE, SIZE, BLACK)
    /\ mask = NoImage /\ output = NoImage /\ final = NoImage
    /\ ops = <<>>
    /\ IdleIO /\ IdleGrad
    /\ a_cx \in AnchorCentresX /\ a_cy \in AnchorCentresY
    /\ a_size \in AnchorSizes /\ a_color \in {WHITE, <<200, 200, 200>>}
    /\ left_hook_points = <<>> /\ right_hook_points = <<>> /\ i = 0

NextAnchor ==
    \/ DrawRing \/ DrawStem \/ DrawCrossbar
    \/ LeftHookStep \/ DrawLeftHook \/ RightHookStep \/ DrawRightHook
    \/ DrawLeftTriangle \/ DrawRightTriangle

SpecAnchor == InitAnchor /\ [][NextAnchor]_vars

(***************************************************************************)
(* create_gradient_background, lines 9-19, on whole width x height rasters *)
(* kept row by row: pixel (x, yy) is element yy * width + x + 1.           *)
(***************************************************************************)
Raster(w, h, value) == [k \in 1..(w * h) |-> value]

TallHeights == {254, 255, 256, SIZE}

Heights == (1..MaxHeight) \cup TallHeights

GradColours == {BLACK, WHITE, <<255, 107, 107>>}

InitGradient ==
    /\ pc = "g_new" /\ driver = "gradient" /\ idx = 0
    /\ IdleIcon /\ IdleIO /\ IdleAnchor
    /\ width \in 1..MaxWidth /\ height \in Heights
    /\ color1 \in GradColours /\ color2 \in GradColours
    /\ base = <<>> /\ top = <<>> /\ gmask = <<>> /\ mask_data = <<>> /\ y = 0

\* Lines 11-14: base in color1, top in color2, a zero mask, an empty list.
GradNew ==
    /\ pc = "g_new"
    /\ base' = Raster(width, height, color1)
    /\ top' = Raster(width, height, color2)
    /\ gmask' = Raster(width, height, 0)
    /\ mask_data' = <<>>
    /\ y' = 0
    /\ pc' = "g_loop"
    /\ UNCHANGED <<driver, idx, icon_vars, io_vars, anchor_vars, width, height, color1, color2>>

\* Lines 15-16: one row of the mask, the same value in every column.
GradRow ==
    /\ pc = "g_loop"
    /\ y < height
    /\ mask_data' = mask_data \o [k \in 1..width |-> RowMask(y, height)]
    /\ y' = y + 1
    /\ UNCHANGED <<pc, driver, idx, icon_vars, io_vars, anchor_vars,
                   width, height, color1, color2, base, top, gmask>>

\* Line 17: mask.putdata(mask_data)
GradPutData ==
    /\ pc = "g_loop"
    /\ y = height
    /\ gmask' = [k \in 1..(width * height) |-> IF k <= Len(mask_data) THEN mask_data[k] ELSE gmask[k]]
    /\ pc' = "g_paste"
    /\ UNCHANGED <<driver, idx, icon_vars, io_vars, anchor_vars,
                   width, height, color1, color2, base, top, mask_data, y>>

\* Lines 18-19: base.paste(top, (0, 0), mask); return base
GradPaste ==
    /\ pc = "g_paste"
    /\ base' = [k \in 1..(width * height) |-> BlendRGB(gmask[k], base[k], top[k])]
    /\ pc' = "g_return"
    /\ UNCHANGED <<driver, idx, icon_vars, io_vars, anchor_vars,
                   width, height, color1, color2, top, gmask, mask_data, y>>

NextGradient == GradNew \/ GradRow \/ GradPutData \/ GradPaste

SpecGradient == InitGradient /\ [][NextGradient]_vars

(***************************************************************************)
(* Vocabulary of the properties.                                           *)
(***************************************************************************)
Within1(c, d) == \A k \in 1..3 : Abs(c[k] - d[k]) <= 1

Written(f) == files[f].mode = "RGB"

Printed(line) == \E k \in 1..Len(stdout) : stdout[k] = line

IsPrefix(s, t) == Len(s) <= Len(t) /\ \A k \in 1..Len(s) : s[k] = t[k]

AnchorOps ==
    <<"ring", "stem", "crossbar", "left_hook", "right_hook", "left_triangle", "right_triangle">>

TailOps == <<"mask", "apply_mask", "flatten", "save">>

OpsWithFlame == <<"gradient", "flame_outer", "flame_inner">> \o AnchorOps \o TailOps

OpsWithoutFlame == <<"gradient">> \o AnchorOps \o TailOps

\* The gradient raster's pixel (x, yy) once create_gradient_background returns.
GradPixel(x, yy) == base[yy * width + x + 1]

(***************************************************************************)
(* C1, as stated: the Default icon's file is 1024x1024 opaque RGB, its     *)
(* pixel (0,0) is within 1 of (255,107,107), its pixel (0,1023) is within  *)
(* 1 of (255,87,87), and its four corner pixels are pure white.            *)
(***************************************************************************)
C1_AsStated ==
    (driver = "main" /\ Written(DefaultArgs.filename)) =>
        LET f == files[DefaultArgs.filename]
        IN  /\ f.mode = "RGB" /\ f.size = <<1024, 1024>>
            /\ Within1(f.px[<<0, 0>>], <<255, 107, 107>>)
            /\ Within1(f.px[<<0, 1023>>], <<255, 87, 87>>)
            /\ \A c \in Corners : f.px[c] = WHITE

(***************************************************************************)
(* C1, amended: the Default icon's file is 1024x1024 opaque RGB and its    *)
(* four corner pixels are pure white.  The gradient's end colours are on   *)
(* the canvas before the mask is applied (pixel (0,0) within 1 of          *)
(* (255,107,107), pixel (0,1023) within 1 of (255,87,87)) and, in the      *)
(* file, at the edge pixels (512,0) and (512,1023) that the mask keeps.    *)
(***************************************************************************)
C1_EndToEnd ==
    /\ (driver = "main" /\ args = DefaultArgs /\ ops # <<>>) =>
           /\ img.mode = "RGB" /\ img.size = <<1024, 1024>>
           /\ Within1(img.px[<<0, 0>>], <<255, 107, 107>>)
           /\ Within1(img.px[<<0, 1023>>], <<255, 87, 87>>)
    /\ (driver = "main" /\ Written(DefaultArgs.filename)) =>
           LET f == files[DefaultArgs.filename]
           IN  /\ f.mode = "RGB" /\ f.size = <<1024, 1024>>
               /\ \A c \in Corners : f.px[c] = WHITE
               /\ Within1(f.px[<<512, 0>>], <<255, 107, 107>>)
               /\ Within1(f.px[<<512, 1023>>], <<255, 87, 87>>)

\* The Default icon has been written by the entry point.
C1_Witness == driver = "main" /\ Written(DefaultArgs.filename) /\ idx = 1 /\ pc = "print"

(***************************************************************************)
(* C2, as stated: in every icon the entry point writes, the four corner    *)
(* pixels are white and the centre pixel (512,512) is not white.           *)
(***************************************************************************)
C2_AsStated ==
    \A k \in 1..Len(Variants) :
        (driver = "main" /\ Written(Variants[k].filename)) =>
            LET f == files[Variants[k].filename]
            IN  /\ \A c \in Corners : f.px[c] = WHITE
                /\ f.px[Centre] # WHITE

(***************************************************************************)
(* C2, amended: the corner radius is 229; the mask is 0 at the four        *)
(* corners and 255 at the centre, so in every icon the entry point writes  *)
(* the corners are the flattening white and the centre shows the canvas,   *)
(* which there is the anchor's crossbar in the anchor colour - white in    *)
(* all three variants, so the centre pixel is white as well.               *)
(***************************************************************************)
C2_CornersMasked ==
    /\ corner_radius = 229
    /\ (driver = "main" /\ mask.mode = "L") =>
           /\ \A c \in Corners : mask.px[c] = 0
           /\ mask.px[Centre] = 255
    /\ \A k \in 1..Len(Variants) :
           (driver = "main" /\ Written(Variants[k].filename)) =>
               LET f == files[Variants[k].filename]
               IN  /\ \A c \in Corners : f.px[c] = WHITE
                   /\ f.px[Centre] = Variants[k].anchor_color
                   /\ f.px[Centre] = WHITE

\* All three icons have been written.
C2_Witness == driver = "main" /\ \A k \in 1..Len(Variants) : Written(Variants[k].filename)

(***************************************************************************)
(* C3, as stated: for every width >= 1 and height >= 1 and all colours A,  *)
(* B, row 0 of the gradient is A, the last row is within 1 of B, and each  *)
(* channel is monotonic over the rows.                                     *)
(***************************************************************************)
RowsUniform ==
    \A yy \in 0..(height - 1) : \A x \in 0..(width - 1) : GradPixel(x, yy) = GradPixel(0, yy)

\* The mask of row yy is the whole number floor(255 * yy / height).
MaskIsRowMask ==
    \A yy \in 0..(height - 1) : \A x \in 0..(width - 1) :
        gmask[yy * width + x + 1] = (255 * yy) \div height

ChannelMonotonic(c) ==
    \/ \A yy \in 0..(height - 2) : GradPixel(0, yy)[c] <= GradPixel(0, yy + 1)[c]
    \/ \A yy \in 0..(height - 2) : GradPixel(0, yy)[c] >= GradPixel(0, yy + 1)[c]

C3_AsStated ==
    pc = "g_return" =>
        /\ \A x \in 0..(width - 1) : GradPixel(x, 0) = color1
        /\ \A x \in 0..(width - 1) : Within1(GradPixel(x, height - 1), color2)
        /\ \A c \in 1..3 : ChannelMonotonic(c)

(***************************************************************************)
(* C3, amended: for every width >= 1, height >= 1 and colours A, B, the    *)
(* mask of row y is int(255*y/height) in every column, row 0 is A, each    *)
(* channel is monotonic over the rows, and the last row is within 1 of B   *)
(* when height >= 255 (the last row's mask value is then 254; for a        *)
(* smaller height it is lower, and for height 1 the last row is A).        *)
(***************************************************************************)
C3_Gradient ==
    pc = "g_return" =>
        /\ MaskIsRowMask
        /\ RowsUniform
        /\ \A x \in 0..(width - 1) : GradPixel(x, 0) = color1
        /\ height >= 255 => \A x \in 0..(width - 1) : Within1(GradPixel(x, height - 1), color2)
        /\ \A c \in 1..3 : ChannelMonotonic(c)
        /\ \A a \in 0..255 : \A b \in 0..255 :
              /\ Blend8(gmask[1], a, b) = a
              /\ height >= 255 => Abs(Blend8(gmask[width * height], a, b) - b) <= 1

\* A gradient of two columns and at least 255 rows between different colours.
C3_Witness ==
    pc = "g_return" /\ height >= 255 /\ width = 2 /\ color1 = BLACK /\ color2 = WHITE

(***************************************************************************)
(* C4: when final.save raises for a variant, no "Created:" line is printed *)
(* for it, the summary is never printed, nothing further is rendered, and  *)
(* the program ends with a non-zero exit status; the status is 0 only when *)
(* every file was written and confirmed.                                   *)
(***************************************************************************)
AllCreated ==
    \A k \in 1..Len(Variants) :
        Written(Variants[k].filename) /\ Printed(CreatedLine(Variants[k].filename))

SummaryPrinted == \E k \in 1..Len(SummaryLines) : Printed(SummaryLines[k])

C4_SaveFailureIsFatal ==
    /\ (driver = "main" /\ pc = "raised") =>
           /\ ~Printed(CreatedLine(args.filename))
           /\ ~Written(args.filename)
           /\ ~SummaryPrinted
           /\ Len(rendered) = idx - 1
    /\ (driver = "main" /\ pc = "exited") =>
           IF AllCreated
           THEN exit_code = 0 /\ SummaryPrinted
           ELSE /\ exit_code # 0
                /\ ~SummaryPrinted
                /\ ~Printed(CreatedLine(args.filename))
                /\ ~Written(args.filename)
                /\ Len(rendered) = idx - 1 /\ Len(stdout) = idx - 1

\* The write of the second icon failed and the program has ended.
C4_Witness ==
    driver = "main" /\ pc = "exited" /\ idx = 2 /\ exit_code = 1
    /\ Written(DefaultArgs.filename) /\ ~Written(DarkArgs.filename)

(***************************************************************************)
(* C5, as stated: with include_flame true and the flame colour pair empty  *)
(* or missing, create_app_icon fails before any drawing operation and      *)
(* before any file is written, and never completes.                        *)
(***************************************************************************)
C5_EmptyFlameFailsEarly ==
    (driver = "calls" /\ idx > 0 /\ args.include_flame /\ ~Truthy(args.flame_colors)) =>
        /\ ops = <<>>
        /\ pc \in {"gradient", "raised", "exited"}
        /\ ~Written(args.filename)

(***************************************************************************)
(* C6: when flame_colors is left out, the call raises nothing of its own   *)
(* (only final.save can fail), neither flame polygon is drawn, the pixels  *)
(* under the flame keep the gradient, and gradient, anchor, mask, flatten  *)
(* and save are all performed.                                             *)
(***************************************************************************)
C6_OmittedFlameSkipsFlame ==
    (driver = "calls" /\ idx > 0 /\ ~args.flame_colors.given) =>
        /\ \A k \in 1..Len(ops) : ops[k] \notin {"flame_outer", "flame_inner"}
        /\ IsPrefix(ops, OpsWithoutFlame)
        /\ pc = "raised" => ops = SubSeq(OpsWithoutFlame, 1, Len(OpsWithoutFlame) - 1)
        /\ pc \in {"print", "caller"} =>
              /\ ops = OpsWithoutFlame
              /\ Written(args.filename)
              /\ \A p \in FlameProbes :
                    files[args.filename].px[p] =
                        GradientAt(p, SIZE, SIZE, args.bg_color1, args.bg_color2)

\* A call without flame_colors has returned.
C6_Witness ==
    driver = "calls" /\ pc = "caller" /\ idx > 0 /\ ~args.flame_colors.given
    /\ Len(rendered) > 0 /\ rendered[Len(rendered)].args = args

(***************************************************************************)
(* C7, as stated: a successful run renders Default, Dark, Tinted in that   *)
(* order and prints one confirmation line per file followed by exactly one *)
(* summary line.                                                           *)
(***************************************************************************)
CreatedLines == [k \in 1..Len(Variants) |-> CreatedLine(Variants[k].filename)]

C7_AsStated ==
    (driver = "main" /\ pc = "exited" /\ exit_code = 0) =>
        /\ Len(stdout) = Len(Variants) + 1
        /\ SubSeq(stdout, 1, Len(Variants)) = CreatedLines

(***************************************************************************)
(* C7, amended: a successful run renders exactly the three variants, in    *)
(* the order Default, Dark, Tinted, each to its own path; each             *)
(* confirmation line is printed after its file is written and before the   *)
(* next variant starts; the output is the three confirmation lines         *)
(* followed by a summary of three lines (an empty line and two sentences,  *)
(* from two print calls), not one.                                         *)
(***************************************************************************)
C7_RunOutput ==
    driver = "main" =>
        /\ Cardinality({Variants[k].filename : k \in 1..Len(Variants)}) = Len(Variants)
        /\ idx <= Len(Variants)
        /\ pc \notin {"caller", "exited"} => (idx >= 1 /\ args = Variants[idx])
        /\ \A k \in 1..Len(Variants) :
              /\ Printed(CreatedLine(Variants[k].filename)) =>
                     (Written(Variants[k].filename) /\ k <= idx)
              /\ Written(Variants[k].filename) => k <= idx
              /\ k < idx => (stdout[k] = CreatedLines[k] /\ rendered[k].args = Variants[k])
        /\ Len(rendered) <= idx
        /\ (pc = "exited" /\ exit_code = 0) =>
              /\ stdout = CreatedLines \o SummaryLines
              /\ Len(stdout) = Len(Variants) + 3
              /\ [k \in 1..Len(rendered) |-> rendered[k].args] = Variants

\* The entry point has ended with status 0.
C7_Witness == driver = "main" /\ pc = "exited" /\ exit_code = 0 /\ Len(rendered) = 3

(***************************************************************************)
(* C8: two finished calls of create_app_icon with the same arguments have  *)
(* identical final images, whatever was rendered before either of them,    *)
(* and the file holds the image of the last call that wrote it.            *)
(***************************************************************************)
C8_Deterministic ==
    driver = "calls" =>
        /\ \A j \in 1..Len(rendered) : \A k \in 1..Len(rendered) :
              rendered[j].args = rendered[k].args => rendered[j].final = rendered[k].final
        /\ \A k \in 1..Len(rendered) :
              (\A j \in (k + 1)..Len(rendered) : rendered[j].args.filename # rendered[k].args.filename)
                  => (pc \in {"caller", "exited"}
                        => files[rendered[k].args.filename] = rendered[k].final)

\* The same icon rendered first and again after a different icon.
C8_Witness ==
    driver = "calls" /\ Len(rendered) = 3
    /\ rendered[1].args = rendered[3].args /\ rendered[2].args # rendered[1].args
    /\ rendered[2].args.bg_color1 # rendered[1].args.bg_color1

(***************************************************************************)
(* C9 as stated: in draw_anchor, for every centre and size, each hook has  *)
(* exactly 20 points once its loop is over, the i-th left and right points *)
(* have the same y and x's whose sum is exactly 2*cx, and the two end-cap  *)
(* triangles are exact mirror images vertex by vertex.                     *)
(***************************************************************************)
Twice(a) == IF a.m = <<>> THEN a ELSE [a EXCEPT !.e = @ + 1]

Magnitude(a) == [a EXCEPT !.neg = FALSE]

\* x_left + x_right - 2*cx, without rounding
MirrorError(l, r, cx) == ExactAdd[ExactAdd[l[1], r[1]], Neg[Twice(cx)]]

ExactMirror(l, r, cx) == l[2] = r[2] /\ MirrorError(l, r, cx).m = <<>>

\* (|cx| + size) - 2^50 * |err|
Slack[err \in Dbls, cx \in Dbls, size \in Dbls] ==
    ExactAdd[ExactAdd[Magnitude(cx), Magnitude(size)], Dbl(TRUE, err.m, err.e + 50)]

NotNegative[a \in Dbls] == a.m = <<>> \/ ~a.neg

\* |x_left + x_right - 2*cx| <= 2^-50 * (|cx| + size)
MirrorWithinRounding(l, r, cx, size) ==
    l[2] = r[2] /\ NotNegative[Slack[MirrorError(l, r, cx), cx, size]]

HooksComplete ==
    /\ pc \in {"right_hook", "left_triangle", "right_triangle", "anchor_done"} =>
           Len(left_hook_points) = 20
    /\ pc \in {"left_triangle", "right_triangle", "anchor_done"} =>
           Len(right_hook_points) = 20

C9_AsStated ==
    driver = "anchor" =>
        /\ HooksComplete
        /\ pc \in {"right_hook", "left_triangle", "right_triangle", "anchor_done"} =>
               \A k \in 1..Len(right_hook_points) :
                   ExactMirror(left_hook_points[k], right_hook_points[k], a_cx)
        /\ pc = "anchor_done" =>
               \A v \in 1..3 :
                   ExactMirror(LeftTriangle(a_cx, a_cy, a_size)[v],
                               RightTriangle(a_cx, a_cy, a_size)[v], a_cx)

(***************************************************************************)
(* C9, amended: each hook has exactly 20 points once its loop is over; the *)
(* i-th left and right points have the same y, and their x's are mirror    *)
(* images about cx up to the rounding of the float arithmetic:             *)
(* |x_left + x_right - 2*cx| <= 2^-50 * (|cx| + size); the same holds for  *)
(* the vertices of the two end-cap triangles.                              *)
(***************************************************************************)
C9_HooksMirrored ==
    driver = "anchor" =>
        /\ HooksComplete
        /\ pc \in {"right_hook", "left_triangle", "right_triangle", "anchor_done"} =>
               \A k \in 1..Len(right_hook_points) :
                   MirrorWithinRounding(left_hook_points[k], right_hook_points[k], a_cx, a_size)
        /\ pc = "anchor_done" =>
               \A v \in 1..3 :
                   MirrorWithinRounding(LeftTriangle(a_cx, a_cy, a_size)[v],
                                        RightTriangle(a_cx, a_cy, a_size)[v], a_cx, a_size)

\* draw_anchor has finished for the icon's own centre and size, and one pair
\* of hook points is not an exact mirror image.
C9_Witness ==
    driver = "anchor" /\ pc = "anchor_done"
    /\ a_cx = center_x /\ a_cy = center_y /\ a_size = symbol_size
    /\ Len(left_hook_points) = 20 /\ Len(right_hook_points) = 20
    /\ \E k \in 1..20 : ~ExactMirror(left_hook_points[k], right_hook_points[k], a_cx)

(***************************************************************************)
(* C10: within one call the operations happen in the order gradient,       *)
(* outer flame, inner flame (when a flame is drawn), ring, stem, crossbar, *)
(* hooks, end-cap triangles, mask, flatten, save; the canvas is not drawn  *)
(* on once the mask has been applied in this call.                         *)
(***************************************************************************)
C10_OperationOrder ==
    driver = "calls" =>
        /\ IsPrefix(ops, OpsWithFlame) \/ IsPrefix(ops, OpsWithoutFlame)
        /\ (pc \in {"print", "caller"} /\ idx > 0) => ops \in {OpsWithFlame, OpsWithoutFlame}
        /\ (\E k \in 1..Len(ops) : ops[k] = "apply_mask") =>
               \A p \in Probes : <<output.px[p][1], output.px[p][2], output.px[p][3]>> = img.px[p]

\* A call that drew the flame has written its file.
C10_Witness == driver = "calls" /\ pc = "print" /\ ops = OpsWithFlame

=============================================================================
